---- MODULE Spec2Model ----
(***************************************************************************)
(* Account REST API service (service/routes.py).                           *)
(*                                                                         *)
(* The state is the account table of the relational store together with    *)
(* the id sequence of its primary key.  Every route handler of routes.py   *)
(* is an operator that maps a request to a response and a new table; the   *)
(* actions apply one handler to one request.  The record model             *)
(* (service/models.py) and the error handlers are not part of the sources  *)
(* at hand: Account_*, serialize and deserialize follow the written        *)
(* contract of the record model.                                           *)
(***************************************************************************)
EXTENDS Integers, Sequences, FiniteSets, TLC

VARIABLES
    store,      \* the account table: id -> row, for the ids that have a row
    nextId,     \* next value of the primary-key sequence
    req,        \* the last request served
    resp,       \* its response: [status, body]
    prev,       \* the table as it was when that request arrived
    deleted,    \* ids for which a DELETE has answered 204
    n201,       \* number of POSTs answered 201
    n204,       \* number of DELETEs answered 204
    pc,         \* per concurrent DELETE request: "idle", "found", "done"
    wid,        \* per concurrent DELETE request: the id of its path
    found,      \* per concurrent DELETE request: what Account.find returned
    wresp,      \* per concurrent DELETE request: the status it answered
    flask       \* what request.get_json() does with a body that is not JSON-typed

vars ==
    <<store, nextId, req, resp, prev, deleted, n201, n204, pc, wid, found, wresp, flask>>

\* Number of ids the primary-key sequence hands out before the model stops creating.
MaxId == 2

\* Ids a request path can name; 0 never has a row (tests use /accounts/0).
PathIds == 0..MaxId

----------------------------------------------------------------------------
(* HTTP status codes (service.common.status) *)

HTTP_200_OK == 200
HTTP_201_CREATED == 201
HTTP_204_NO_CONTENT == 204
HTTP_400_BAD_REQUEST == 400
HTTP_404_NOT_FOUND == 404
HTTP_415_UNSUPPORTED_MEDIA_TYPE == 415
HTTP_500_INTERNAL_SERVER_ERROR == 500

----------------------------------------------------------------------------
(* Requests *)

\* Python's None, for a text field, a date or a missing header.
None == "None"

\* Content-Type headers: absent, the exact JSON type, a JSON type with a
\* parameter, and another type (test_unsupported_media_type sends test/html).
ContentTypes == {None, "application/json", "application/json; charset=utf-8", "test/html"}

\* The media type of a header value without its parameters (werkzeug's mimetype).
mimetype(ctype) ==
    IF ctype = "application/json; charset=utf-8" THEN "application/json" ELSE ctype

\* A JSON number where text is expected.
NotText == {"<number 42>"}

Required == {"name", "email", "address", "phone_number"}

IsoDates == {"2024-01-01", "2024-01-02"}

\* date.fromisoformat: the date a canonical ISO string denotes, as <<y, m, d>>.
fromisoformat(s) ==
    CASE s = "2024-01-01" -> <<2024, 1, 1>>
      [] s = "2024-01-02" -> <<2024, 1, 2>>

\* date.isoformat: renders <<y, m, d>> as an ISO string.
isoformat(d) ==
    CASE d = <<2024, 1, 1>> -> "2024-01-01"
      [] d = <<2024, 1, 2>> -> "2024-01-02"

\* Values date.today() can return while the service runs.
Dates == {fromisoformat(s) : s \in IsoDates}

\* The example payload of the specification: no date_joined.
Sam ==
    [name |-> "Sam", email |-> "sam@example.com", address |-> "1 Main St",
     phone_number |-> "555-0100"]

\* A payload as a serialized account has it: every field, and an id.
Krissy ==
    [id |-> 0, name |-> "Krissy Brimijoin", email |-> "kb@example.com",
     address |-> "2 Oak Ave", phone_number |-> "555-0199",
     date_joined |-> "2024-01-01"]

Drop(o, key) == [k \in (DOMAIN o) \ {key} |-> o[k]]

ValidObjects ==
    { Sam,
      Krissy,
      [Krissy EXCEPT !.id = 1, !.name = "Sam", !.date_joined = "2024-01-02"] }

InvalidObjects ==
    { Drop(Krissy, k) : k \in Required }
    \cup { [name |-> "not enough data"],
           [Krissy EXCEPT !.email = "<number 42>"],
           [Krissy EXCEPT !.date_joined = "yesterday"] }

\* Request bodies: text that is no JSON, the JSON value null, JSON objects.
NoObject == [k \in {} |-> None]
Malformed == [kind |-> "malformed", obj |-> NoObject]
Object(o) == [kind |-> "object", obj |-> o]
Bodies ==
    { Malformed, [kind |-> "null", obj |-> NoObject] }
    \cup { Object(o) : o \in ValidObjects \cup InvalidObjects }

\* What a client sends with a POST or a PUT: every body as application/json,
\* and under each other header a valid body and a malformed one.
Payloads ==
    { [ctype |-> "application/json", body |-> b] : b \in Bodies }
    \cup { [ctype |-> c, body |-> b] :
             c \in ContentTypes \ {"application/json"}, b \in {Object(Krissy), Malformed} }

\* The values of date.today() that matter to a body: deserialize reads the
\* clock only for an object without date_joined.
Today(body) ==
    IF body.kind = "object" /\ "date_joined" \notin DOMAIN body.obj
    THEN Dates
    ELSE {fromisoformat("2024-01-01")}

Request(method, route, id, ctype, body) ==
    [method |-> method, route |-> route, id |-> id, ctype |-> ctype, body |-> body]

NoBody == [kind |-> "null", obj |-> NoObject]

Message(text) == [message |-> text]

----------------------------------------------------------------------------
(* Record model: service.models.Account, from its written contract *)

\* Account(): a record with no identity and no field set.
Account ==
    [id |-> 0, name |-> None, email |-> None, address |-> None,
     phone_number |-> None, date_joined |-> <<>>]

IsText(o, k) == k \in DOMAIN o /\ o[k] \notin NotText

\* The fields deserialize sets, in the order it sets them.
SetName(a, o) == [a EXCEPT !.name = o.name]
SetEmail(a, o) == [a EXCEPT !.email = o.email]
SetAddress(a, o) == [a EXCEPT !.address = o.address]
SetPhone(a, o) == [a EXCEPT !.phone_number = o.phone_number]

\* deserialize(data): populates the four required text fields and the optional
\* date, one after the other; fails (DataValidationError) when the data is no
\* object, a required key is absent, a value is no text or the date does not
\* parse.  On failure the account keeps the fields set so far.  The id is never
\* read from the data.
deserialize(a, data, today) ==
    IF data.kind # "object" THEN [ok |-> FALSE, account |-> a]
    ELSE LET o == data.obj IN
      IF ~IsText(o, "name") THEN [ok |-> FALSE, account |-> a]
      ELSE LET a1 == SetName(a, o) IN
        IF ~IsText(o, "email") THEN [ok |-> FALSE, account |-> a1]
        ELSE LET a2 == SetEmail(a1, o) IN
          IF ~IsText(o, "address") THEN [ok |-> FALSE, account |-> a2]
          ELSE LET a3 == SetAddress(a2, o) IN
            IF ~IsText(o, "phone_number") THEN [ok |-> FALSE, account |-> a3]
            ELSE LET a4 == SetPhone(a3, o) IN
              IF "date_joined" \notin DOMAIN o
              THEN [ok |-> TRUE, account |-> [a4 EXCEPT !.date_joined = today]]
              ELSE IF o.date_joined \notin IsoDates
              THEN [ok |-> FALSE, account |-> a4]
              ELSE [ok |-> TRUE,
                    account |-> [a4 EXCEPT !.date_joined = fromisoformat(o.date_joined)]]

\* serialize(): the id and every field; the date as an ISO string.
serialize(a) ==
    [id |-> a.id, name |-> a.name, email |-> a.email, address |-> a.address,
     phone_number |-> a.phone_number, date_joined |-> isoformat(a.date_joined)]

\* Account.find(id): the row with that id, as a set of at most one row; the
\* empty set is None.
Account_find(id) == IF id \in DOMAIN store THEN {store[id]} ELSE {}

\* Account.all(): every row.
Account_all == { store[i] : i \in DOMAIN store }

\* create(): inserts the row under the next value of the id sequence.
Account_create(a) ==
    LET row == [a EXCEPT !.id = nextId] IN
    [account |-> row,
     store |-> [i \in (DOMAIN store) \cup {nextId} |-> IF i = nextId THEN row ELSE store[i]],
     nextId |-> nextId + 1]

\* update(): writes the account over the row of its id.
Account_update(a) == [store EXCEPT ![a.id] = a]

\* What the store does with the DELETE of a row that is already gone: nothing
\* (no row matched), or it fails the transaction.
DeleteOutcomes == {"no row matched", "store failure"}

\* delete(): removes the row of the account.
Account_delete(a, outcome) ==
    IF a.id \in DOMAIN store
    THEN [ok |-> TRUE, store |-> [i \in (DOMAIN store) \ {a.id} |-> store[i]]]
    ELSE [ok |-> outcome = "no row matched", store |-> store]

----------------------------------------------------------------------------
(* Flask *)

\* request.get_json() on a body whose media type is not JSON: older releases
\* return None, later ones abort with 400, the latest with 415.
FlaskBehaviours == {"returns None", "aborts 400", "aborts 415"}

\* request.get_json(): the parsed body, or the status it aborts with.
get_json(r) ==
    IF mimetype(r.ctype) # "application/json"
    THEN CASE flask = "returns None" -> [ok |-> TRUE, status |-> HTTP_200_OK, data |-> NoBody]
           [] flask = "aborts 400" ->
                [ok |-> FALSE, status |-> HTTP_400_BAD_REQUEST, data |-> NoBody]
           [] flask = "aborts 415" ->
                [ok |-> FALSE, status |-> HTTP_415_UNSUPPORTED_MEDIA_TYPE, data |-> NoBody]
    ELSE IF r.body.kind = "malformed"
    THEN [ok |-> FALSE, status |-> HTTP_400_BAD_REQUEST, data |-> NoBody]
    ELSE [ok |-> TRUE, status |-> HTTP_200_OK, data |-> r.body]

\* What a handler leaves behind: the response, the table and the id sequence.
Reply(status, body, st, nid) ==
    [status |-> status, body |-> body, store |-> st, nextId |-> nid]

----------------------------------------------------------------------------
(* Route handlers: service/routes.py *)

health(r) == Reply(HTTP_200_OK, [status |-> "OK"], store, nextId)

index(r) ==
    Reply(HTTP_200_OK, [name |-> "Account REST API Service", version |-> "1.0"],
          store, nextId)

check_content_type(r, media_type) == r.ctype # None /\ r.ctype = media_type

\* create_accounts comparing the media type instead of the whole header.
create_accounts_Mimetype(r, today) ==
    IF mimetype(r.ctype) # "application/json"
    THEN Reply(HTTP_415_UNSUPPORTED_MEDIA_TYPE, Message("Unsupported content type sent "),
               store, nextId)
    ELSE LET j == get_json(r) IN
      IF ~j.ok THEN Reply(j.status, Message("Bad Request"), store, nextId)
      ELSE LET d == deserialize(Account, j.data, today) IN
        IF ~d.ok THEN Reply(HTTP_400_BAD_REQUEST, Message("Bad Request"), store, nextId)
        ELSE LET c == Account_create(d.account) IN
          Reply(HTTP_201_CREATED, serialize(c.account), c.store, c.nextId)

\* create_accounts creating the account before the validation error is answered.
create_accounts_CreateFirst(r, today) ==
    IF r.ctype # "application/json"
    THEN Reply(HTTP_415_UNSUPPORTED_MEDIA_TYPE, Message("Unsupported content type sent "),
               store, nextId)
    ELSE LET j == get_json(r) IN
      IF ~j.ok THEN Reply(j.status, Message("Bad Request"), store, nextId)
      ELSE LET d == deserialize(Account, j.data, today) IN
        IF ~d.ok
        THEN LET c == Account_create([d.account EXCEPT !.date_joined = today]) IN
          Reply(HTTP_400_BAD_REQUEST, Message("Bad Request"), c.store, c.nextId)
        ELSE LET c == Account_create(d.account) IN
          Reply(HTTP_201_CREATED, serialize(c.account), c.store, c.nextId)

\* create_accounts serializing the account before create() has given it its id.
create_accounts_SerializeFirst(r, today) ==
    IF r.ctype # "application/json"
    THEN Reply(HTTP_415_UNSUPPORTED_MEDIA_TYPE, Message("Unsupported content type sent "),
               store, nextId)
    ELSE LET j == get_json(r) IN
      IF ~j.ok THEN Reply(j.status, Message("Bad Request"), store, nextId)
      ELSE LET d == deserialize(Account, j.data, today) IN
        IF ~d.ok THEN Reply(HTTP_400_BAD_REQUEST, Message("Bad Request"), store, nextId)
        ELSE LET c == Account_create(d.account) IN
          Reply(HTTP_201_CREATED, serialize(d.account), c.store, c.nextId)

create_accounts(r, today) ==
    IF r.ctype # "application/json"
    THEN Reply(HTTP_415_UNSUPPORTED_MEDIA_TYPE, Message("Unsupported content type sent "),
               store, nextId)
    ELSE IF ~check_content_type(r, "application/json")
    THEN Reply(HTTP_415_UNSUPPORTED_MEDIA_TYPE,
               Message("Content-Type must be application/json"), store, nextId)
    ELSE LET j == get_json(r) IN
      IF ~j.ok THEN Reply(j.status, Message("Bad Request"), store, nextId)
      ELSE LET d == deserialize(Account, j.data, today) IN
        IF ~d.ok THEN Reply(HTTP_400_BAD_REQUEST, Message("Bad Request"), store, nextId)
        ELSE LET c == Account_create(d.account) IN
          Reply(HTTP_201_CREATED, serialize(c.account), c.store, c.nextId)

\* list_accounts leaving the last row out of the listing.
list_accounts_DropLast(r, order) ==
    Reply(HTTP_200_OK,
          [i \in (DOMAIN order) \ {Cardinality(DOMAIN order)} |-> serialize(order[i])],
          store, nextId)

\* The listing in one of the orders the store may return the rows in.
list_accounts(r, order) ==
    Reply(HTTP_200_OK, [i \in DOMAIN order |-> serialize(order[i])], store, nextId)

read_account(r) ==
    LET account == Account_find(r.id) IN
    IF account = {}
    THEN Reply(HTTP_404_NOT_FOUND, Message("Account with id {0} not found"), store, nextId)
    ELSE Reply(HTTP_200_OK, serialize(CHOOSE a \in account : TRUE), store, nextId)

\* update_account answering without update(): the change is never written.
update_account_NoUpdate(r, today) ==
    LET updated_account == get_json(r) IN
    IF ~updated_account.ok
    THEN Reply(updated_account.status, Message("Bad Request"), store, nextId)
    ELSE LET account == Account_find(r.id) IN
      IF account = {}
      THEN Reply(HTTP_404_NOT_FOUND, Message("Could not find account to update"),
                 store, nextId)
      ELSE LET d == deserialize(CHOOSE a \in account : TRUE, updated_account.data, today) IN
        IF ~d.ok THEN Reply(HTTP_400_BAD_REQUEST, Message("Bad Request"), store, nextId)
        ELSE Reply(HTTP_200_OK, serialize(d.account), store, nextId)

\* update_account writing the half-populated account when deserialize fails.
update_account_Partial(r, today) ==
    LET updated_account == get_json(r) IN
    IF ~updated_account.ok
    THEN Reply(updated_account.status, Message("Bad Request"), store, nextId)
    ELSE LET account == Account_find(r.id) IN
      IF account = {}
      THEN Reply(HTTP_404_NOT_FOUND, Message("Could not find account to update"),
                 store, nextId)
      ELSE LET d == deserialize(CHOOSE a \in account : TRUE, updated_account.data, today) IN
        IF ~d.ok
        THEN Reply(HTTP_400_BAD_REQUEST, Message("Bad Request"),
                   Account_update(d.account), nextId)
        ELSE Reply(HTTP_200_OK, serialize(d.account), Account_update(d.account), nextId)

update_account(r, today) ==
    LET updated_account == get_json(r) IN
    IF ~updated_account.ok
    THEN Reply(updated_account.status, Message("Bad Request"), store, nextId)
    ELSE LET account == Account_find(r.id) IN
      IF account = {}
      THEN Reply(HTTP_404_NOT_FOUND, Message("Could not find account to update"),
                 store, nextId)
      ELSE LET d == deserialize(CHOOSE a \in account : TRUE, updated_account.data, today) IN
        IF ~d.ok THEN Reply(HTTP_400_BAD_REQUEST, Message("Bad Request"), store, nextId)
        ELSE Reply(HTTP_200_OK, serialize(d.account), Account_update(d.account), nextId)

\* delete_account answering 204 without account.delete().
delete_found_NoDelete(account, outcome) ==
    IF account = {}
    THEN Reply(HTTP_404_NOT_FOUND, Message("Could not find account to delete"),
               store, nextId)
    ELSE Reply(HTTP_204_NO_CONTENT, Message("deleted"), store, nextId)

\* delete_account deleting every row of the table instead of the one found.
delete_found_All(account, outcome) ==
    IF account = {}
    THEN Reply(HTTP_404_NOT_FOUND, Message("Could not find account to delete"),
               store, nextId)
    ELSE Reply(HTTP_204_NO_CONTENT, Message("deleted"),
               [i \in {} |-> CHOOSE a \in account : TRUE], nextId)

\* delete_account after its Account.find: the answer for what find returned.
delete_found(account, outcome) ==
    IF account = {}
    THEN Reply(HTTP_404_NOT_FOUND, Message("Could not find account to delete"),
               store, nextId)
    ELSE LET del == Account_delete(CHOOSE a \in account : TRUE, outcome) IN
      IF del.ok
      THEN Reply(HTTP_204_NO_CONTENT, Message("deleted"), del.store, nextId)
      ELSE Reply(HTTP_500_INTERNAL_SERVER_ERROR, Message("Internal Server Error"),
                 del.store, nextId)

delete_account(r, outcome) == delete_found(Account_find(r.id), outcome)

----------------------------------------------------------------------------
(* The service: requests served one at a time *)

Workers == {"w1", "w2"}

EmptyTable == [i \in {} |-> Account]

NoRequest == Request("NONE", "/", 0, None, NoBody)

Init ==
    /\ store = EmptyTable
    /\ nextId = 1
    /\ req = NoRequest
    /\ resp = [status |-> 0, body |-> Message("")]
    /\ prev = EmptyTable
    /\ deleted = {}
    /\ n201 = 0
    /\ n204 = 0
    /\ pc = [w \in Workers |-> "idle"]
    /\ wid = [w \in Workers |-> 0]
    /\ found = [w \in Workers |-> {}]
    /\ wresp = [w \in Workers |-> 0]
    /\ flask \in FlaskBehaviours

\* One request served from arrival to response.
Serve(r, res) ==
    /\ req' = r
    /\ resp' = [status |-> res.status, body |-> res.body]
    /\ prev' = store
    /\ store' = res.store
    /\ nextId' = res.nextId
    /\ n201' = IF r.method = "POST" /\ res.status = HTTP_201_CREATED THEN n201 + 1 ELSE n201
    /\ n204' = IF r.method = "DELETE" /\ res.status = HTTP_204_NO_CONTENT
               THEN n204 + 1 ELSE n204
    /\ deleted' = IF r.method = "DELETE" /\ res.status = HTTP_204_NO_CONTENT
                  THEN deleted \cup {r.id} ELSE deleted
    /\ UNCHANGED <<pc, wid, found, wresp, flask>>

\* The orders in which the store may return a set of rows.
Orders(rows) ==
    { o \in [1..Cardinality(rows) -> rows] : \A i, j \in DOMAIN o : o[i] = o[j] => i = j }

Health ==
    LET r == Request("GET", "/health", 0, None, NoBody) IN Serve(r, health(r))

Index ==
    LET r == Request("GET", "/", 0, None, NoBody) IN Serve(r, index(r))

\* POST /accounts with a header of ctypes and a body of bodies.
CreateWith(payloads) ==
    \E p \in payloads : \E today \in Today(p.body) :
        LET r == Request("POST", "/accounts", 0, p.ctype, p.body)
            res == create_accounts(r, today)
        IN /\ res.nextId <= MaxId + 1
           /\ Serve(r, res)

CreateAccounts == CreateWith(Payloads)

ListAccounts ==
    \E order \in Orders(Account_all) :
        LET r == Request("GET", "/accounts", 0, None, NoBody) IN
        Serve(r, list_accounts(r, order))

ReadAccount ==
    \E id \in PathIds :
        LET r == Request("GET", "/accounts/<id>", id, None, NoBody) IN
        Serve(r, read_account(r))

UpdateAccount ==
    \E id \in PathIds, p \in Payloads : \E today \in Today(p.body) :
        LET r == Request("PUT", "/accounts/<id>", id, p.ctype, p.body) IN
        Serve(r, update_account(r, today))

DeleteAccount ==
    \E id \in PathIds, outcome \in DeleteOutcomes :
        LET r == Request("DELETE", "/accounts/<id>", id, None, NoBody) IN
        Serve(r, delete_account(r, outcome))

Next ==
    \/ Health
    \/ Index
    \/ CreateAccounts
    \/ ListAccounts
    \/ ReadAccount
    \/ UpdateAccount
    \/ DeleteAccount

Spec == Init /\ [][Next]_vars

----------------------------------------------------------------------------
(* The service with two DELETE requests in flight: the find and the delete   *)
(* of delete_account are separate steps, with no lock between them.          *)

\* Line 120: account = Account.find(id).
DeleteFind(w) ==
    /\ pc[w] = "idle"
    /\ \E id \in PathIds :
        /\ wid' = [wid EXCEPT ![w] = id]
        /\ found' = [found EXCEPT ![w] = Account_find(id)]
    /\ pc' = [pc EXCEPT ![w] = "found"]
    /\ UNCHANGED <<store, nextId, req, resp, prev, deleted, n201, n204, wresp, flask>>

\* Lines 121-127: the answer, after account.delete() when an account was found.
DeleteFinish(w) ==
    /\ pc[w] = "found"
    /\ \E outcome \in DeleteOutcomes :
        LET res == delete_found(found[w], outcome) IN
        /\ store' = res.store
        /\ wresp' = [wresp EXCEPT ![w] = res.status]
        /\ n204' = IF res.status = HTTP_204_NO_CONTENT THEN n204 + 1 ELSE n204
        /\ deleted' = IF res.status = HTTP_204_NO_CONTENT
                      THEN deleted \cup {wid[w]} ELSE deleted
    /\ pc' = [pc EXCEPT ![w] = "done"]
    /\ UNCHANGED <<nextId, req, resp, prev, n201, wid, found, flask>>

\* POST /accounts with the example payload, to have rows to delete.
CreateSam == CreateWith({[ctype |-> "application/json", body |-> Object(Sam)]})

NextConc ==
    \/ CreateSam
    \/ \E w \in Workers : DeleteFind(w)
    \/ \E w \in Workers : DeleteFinish(w)

SpecConc == Init /\ [][NextConc]_vars

----------------------------------------------------------------------------
(* Properties *)

\* The response a GET /accounts/<id> gets when it is the next request.
Get(id) == read_account(Request("GET", "/accounts/<id>", id, None, NoBody))

IsJson(r) == mimetype(r.ctype) = "application/json"

\* The body is an object deserialize accepts.
ValidBody(r) == r.body.kind = "object" /\ r.body.obj \in ValidObjects

TextFields == {"name", "email", "address", "phone_number"}

\* Ids whose row differs, or exists on one side only, between two tables.
Touched(before, after) ==
    { i \in (DOMAIN before) \cup (DOMAIN after) :
        \/ i \notin DOMAIN before
        \/ i \notin DOMAIN after
        \/ before[i] # after[i] }

\* C1: once a DELETE has answered 204 for an id, a GET on that id answers 404
\* in every later state, whatever requests were served in between.
C1_DeletionPermanent ==
    \A i \in deleted : Get(i).status = HTTP_404_NOT_FOUND

\* A create has answered 201 after an id was deleted, and rows exist again.
C1_Witness ==
    /\ deleted # {}
    /\ req.method = "POST"
    /\ resp.status = HTTP_201_CREATED
    /\ DOMAIN store # {}

\* C2: GET, PUT and DELETE on an id without a row answer 404 and leave the
\* table unchanged, for PUT whatever the body (sent as JSON) is.
C2_AbsentIdIs404 ==
    (/\ req.method \in {"GET", "PUT", "DELETE"}
     /\ req.route = "/accounts/<id>"
     /\ req.id \notin DOMAIN prev
     /\ req.method = "PUT" => req.ctype = "application/json")
    => (resp.status = HTTP_404_NOT_FOUND /\ store = prev)

\* C3: a POST whose Content-Type is not exactly application/json (absent
\* included) answers 415 and stores nothing, whatever its body is.
C3_UnsupportedMediaType ==
    (req.method = "POST" /\ req.ctype # "application/json")
    => (/\ resp.status = HTTP_415_UNSUPPORTED_MEDIA_TYPE
        /\ store = prev
        /\ nextId = n201 + 1)

\* A valid body under a JSON type with a parameter, and a malformed body
\* without any header, were both refused while the table had a row.
C3_Witness ==
    /\ req.method = "POST"
    /\ DOMAIN prev # {}
    /\ \/ req.ctype = "application/json; charset=utf-8" /\ ValidBody(req)
       \/ req.ctype = None /\ req.body.kind = "malformed"
    /\ resp.status = HTTP_415_UNSUPPORTED_MEDIA_TYPE

\* C4: a POST sent as application/json whose object lacks a required field
\* answers 400 and stores nothing.
C4_MissingFieldIs400 ==
    (/\ req.method = "POST"
     /\ req.ctype = "application/json"
     /\ req.body.kind = "object"
     /\ \E k \in Required : k \notin DOMAIN req.body.obj)
    => (/\ resp.status = HTTP_400_BAD_REQUEST
        /\ store = prev
        /\ nextId = n201 + 1)

\* A POST lacking only phone_number was refused while the table had a row.
C4_Witness ==
    /\ req.method = "POST"
    /\ req.ctype = "application/json"
    /\ req.body = Object(Drop(Krissy, "phone_number"))
    /\ DOMAIN prev # {}
    /\ resp.status = HTTP_400_BAD_REQUEST

\* C5: the number of rows, and the length of every listing, is the number of
\* 201 creates minus the number of 204 deletes; a request answered 400, 404
\* or 415 leaves that number as it was.
C5_ListCount ==
    /\ Cardinality(DOMAIN store) = n201 - n204
    /\ (req.method = "GET" /\ req.route = "/accounts")
       => (/\ resp.status = HTTP_200_OK
           /\ Cardinality(DOMAIN resp.body) = n201 - n204
           /\ n204 = 0 => Cardinality(DOMAIN resp.body) = n201)
    /\ resp.status \in {HTTP_400_BAD_REQUEST, HTTP_404_NOT_FOUND,
                        HTTP_415_UNSUPPORTED_MEDIA_TYPE}
       => Cardinality(DOMAIN store) = Cardinality(DOMAIN prev)

\* A listing of MaxId rows after MaxId creates and no delete.
C5_Witness ==
    /\ req.method = "GET"
    /\ req.route = "/accounts"
    /\ n201 = MaxId
    /\ n204 = 0
    /\ Cardinality(DOMAIN resp.body) = MaxId

\* C6: a 201 answer reproduces every field of the payload and carries an id
\* that no other row has and that was not in the table before; a GET on that
\* id then answers 200 with the same id and fields.
C6_CreateReadRoundTrip ==
    /\ (req.method = "POST" /\ resp.status = HTTP_201_CREATED)
       => (/\ \A k \in (DOMAIN req.body.obj) \ {"id"} : resp.body[k] = req.body.obj[k]
           /\ resp.body.id \notin DOMAIN prev
           /\ \A j \in DOMAIN prev : store[j].id # resp.body.id
           /\ Get(resp.body.id).status = HTTP_200_OK
           /\ Get(resp.body.id).body = resp.body)
    /\ (req.method = "POST" /\ req.ctype = "application/json" /\ ValidBody(req))
       => resp.status = HTTP_201_CREATED

\* A payload carrying the id of an existing row, and its own date, was created
\* beside that row and got another id than the one it carried.
C6_Witness ==
    /\ req.method = "POST"
    /\ resp.status = HTTP_201_CREATED
    /\ "id" \in DOMAIN req.body.obj
    /\ req.body.obj.id \in DOMAIN prev
    /\ req.body.obj.id # resp.body.id
    /\ resp.body.date_joined = "2024-01-02"

\* C7: a PUT with a valid body on an existing id answers 200 with the path's
\* id (whatever id the body carries) and the body's name, email, address and
\* phone_number, and a GET on that id then returns that record.
C7_UpdateReplacesFields ==
    /\ (req.method = "PUT" /\ IsJson(req) /\ ValidBody(req) /\ req.id \in DOMAIN prev)
       => resp.status = HTTP_200_OK
    /\ (req.method = "PUT" /\ resp.status = HTTP_200_OK)
       => (/\ resp.body.id = req.id
           /\ \A k \in TextFields : resp.body[k] = req.body.obj[k]
           /\ Get(req.id).status = HTTP_200_OK
           /\ Get(req.id).body = resp.body)

\* A PUT whose body carries another id than the path changed all four text
\* fields of the row.
C7_Witness ==
    /\ req.method = "PUT"
    /\ resp.status = HTTP_200_OK
    /\ "id" \in DOMAIN req.body.obj
    /\ req.body.obj.id # req.id
    /\ \A k \in TextFields : prev[req.id][k] # store[req.id][k]

\* C8: a PUT on an existing id whose body fails deserialization answers 400
\* and a GET on that id then returns the record as it was before the PUT.
C8_FailedUpdateNoEffect ==
    (/\ req.method = "PUT"
     /\ req.ctype = "application/json"
     /\ req.id \in DOMAIN prev
     /\ ~ValidBody(req))
    => (/\ resp.status = HTTP_400_BAD_REQUEST
        /\ store = prev
        /\ Get(req.id).status = HTTP_200_OK
        /\ Get(req.id).body = serialize(prev[req.id]))

\* A PUT that supplied a new name and email but no address was refused.
C8_Witness ==
    /\ req.method = "PUT"
    /\ req.ctype = "application/json"
    /\ req.id \in DOMAIN prev
    /\ req.body = Object(Drop(Krissy, "address"))
    /\ prev[req.id].name # Krissy.name
    /\ prev[req.id].email # Krissy.email
    /\ resp.status = HTTP_400_BAD_REQUEST

\* C9: every request touches at most one row: a PUT or DELETE only the row of
\* its path id, a POST only the row it adds, a GET none.
C9_Frame ==
    /\ Cardinality(Touched(prev, store)) <= 1
    /\ req.method \in {"PUT", "DELETE"} => Touched(prev, store) \subseteq {req.id}
    /\ req.method = "POST" => Touched(prev, store) \subseteq (DOMAIN store) \ (DOMAIN prev)
    /\ req.method = "GET" => store = prev

\* A DELETE answered 204 and another row is still there.
C9_Witness ==
    /\ req.method = "DELETE"
    /\ resp.status = HTTP_204_NO_CONTENT
    /\ DOMAIN store # {}
    /\ Touched(prev, store) = {req.id}

\* C10: of two DELETE requests in flight for the same id, each of which found
\* the account, exactly one answers 204 and the other answers 404.
C10_ExactlyOne204 ==
    \A v, w \in Workers :
        (/\ v # w
         /\ pc[v] = "done" /\ pc[w] = "done"
         /\ wid[v] = wid[w]
         /\ found[v] # {} /\ found[w] # {})
        => \/ wresp[v] = HTTP_204_NO_CONTENT /\ wresp[w] = HTTP_404_NOT_FOUND
           \/ wresp[v] = HTTP_404_NOT_FOUND /\ wresp[w] = HTTP_204_NO_CONTENT

====
